---- MODULE Spec2Model ----
(***************************************************************************)
(* Model of internal/commands/validate.go: the concurrent validation of a  *)
(* list of objects against the schemas of a cluster.                       *)
(*                                                                         *)
(* doValidate checks its arguments, asks for the filter parameters, loads  *)
(* the objects, creates the schema client and calls validateObjects.       *)
(* validateObjects hands every object to validator.validate through        *)
(* runInParallel; each call looks the schema up, writes one report to the  *)
(* locked writer and records the outcome in validatorStats under its mutex.*)
(* After the executor has returned, printStats writes the summary and the  *)
(* verdict is reduced from the executor's error and the statistics.        *)
(*                                                                         *)
(* runInParallel, lockWriter and printStats are defined in other files of  *)
(* the package; they are modelled from their contracts in section 6 of     *)
(* the specification: the executor runs at most "parallel" calls at once,  *)
(* calls validate once per object, keeps the first error a call returned   *)
(* and returns when every call has returned; the writer serializes Write.  *)
(***************************************************************************)
EXTENDS Integers, Sequences, FiniteSets, Bags, TLC

\* ---------------------------------------------------------------- bounds
MaxObjs == 2

\* the "parallel" values tried: 1 (sequential) up to more workers than objects
MaxParallel == MaxObjs + 1

Workers == 1..MaxParallel

\* ---------------------------------------------------------------- inputs
\* display names returned by client.DisplayName; two objects may share one
Names == {"a", "b"}

\* remote.ErrSchemaNotFound, the sentinel compared by identity in validate
ErrSchemaNotFound == "ErrSchemaNotFound"

\* the other errors ValidatorFor can fail with
LookupErrors == {"fetch1", "fetch2"}

\* what schema.Validate returns: zero, one or two violations
ViolationLists == {<< >>, <<"v1">>, <<"v1", "v2">>}

\* An object together with the answers the schema client gives for it:
\* name = DisplayName(obj), err = the error of ValidatorFor ("nil" for none),
\* errs = the result of schema.Validate (read only when err is nil).
Objects ==
    {o \in [name : Names,
            err : {"nil", ErrSchemaNotFound} \cup LookupErrors,
            errs : ViolationLists] :
        o.err # "nil" => o.errs = << >>}

\* Workers, names and lookup errors are interchangeable, so of the object
\* lists that differ only by renaming one is kept: names and lookup errors
\* appear for the first time in the order of NameOrder and ErrorOrder.
NameOrder == <<"a", "b">>
ErrorOrder == <<"fetch1", "fetch2">>

InOrder(vals, ord) ==
    \A i \in 1..Len(vals) : \A k \in 2..Len(ord) :
        vals[i] = ord[k] => \E j \in 1..(i - 1) : vals[j] = ord[k - 1]

NamesOf(os) == [i \in 1..Len(os) |-> os[i].name]
ErrsOf(os) == [i \in 1..Len(os) |-> os[i].err]

ObjectLists ==
    {os \in UNION {[1..n -> Objects] : n \in 0..MaxObjs} :
        InOrder(NamesOf(os), NameOrder) /\ InOrder(ErrsOf(os), ErrorOrder)}

\* ---------------------------------------------------------------- state
VARIABLES
    args,       \* args argument of doValidate
    dpc,        \* position of doValidate
    trace,      \* the collaborators doValidate has invoked, in order
    failed,     \* the collaborator that returned an error ("" for none)
    objs,       \* what filteredObjects yields: objs argument of validateObjects
    parallel,   \* parallel argument of validateObjects
    mpc,        \* position of validateObjects
    next,       \* executor: index of the next object to hand out
    pc,         \* pc[w]: position of worker w inside validate
    cur,        \* cur[w]: index of the object worker w validates (0: none)
    tmp,        \* tmp[w]: the field value a record operation has loaded
    l,          \* validatorStats.l: 0 when free, else the holder
    wl,         \* the lockWriter's mutex: 0 when free, else the holder
    stats,      \* validatorStats: ValidCount, Unknown, Invalid, Errors
    out,        \* what has been written to v.w, in order
    outBy,      \* outBy[k]: index of the object out[k] is about (0: summary)
    nw,         \* nw[w]: Write calls worker w has made in its validate call
    vErr,       \* the error runInParallel captured / returned
    result,     \* return value of validateObjects
    invoked,    \* invoked[i]: number of validate calls started for objs[i]
    returned,   \* returned[i]: what the validate calls for objs[i] returned
    called,     \* called[i]: the record operations validate(objs[i]) called
    contrib     \* contrib[i]: what those operations changed in stats

vars == <<args, dpc, trace, failed, objs, parallel, mpc, next, pc, cur, tmp,
          l, wl, stats, out, outBy, nw, vErr, result, invoked, returned,
          called, contrib>>

\* ---------------------------------------------------------------- values
\* glyphs of the report lines
unicodeCheck == "\\u2714"
unicodeX == "\\u2718"
unicodeQuestion == "\\u003f"

\* the verdict of validateObjects: nil, a propagated lookup error, or
\* fmt.Errorf("%d invalid objects found", n)
NilError == [msg |-> "nil", n |-> 0]
PropagatedError(e) == [msg |-> e, n |-> 0]
InvalidObjectsError(n) == [msg |-> "%d invalid objects found", n |-> n]

\* newUsageError(msg)
newUsageError(msg) == [msg |-> msg, n |-> 0, usage |-> TRUE]

\* the zero value of validatorStats
ZeroStats == [ValidCount |-> 0, Unknown |-> << >>, Invalid |-> << >>, Errors |-> << >>]

\* ---------------------------------------------------------------- validate
\* One report handed to v.w by a single Fprintf call: style stands for the
\* v.dim / v.red / v.green prefix (closed by v.reset), detail for the text
\* after the name (the fetch error, or the joined violation lines).
Report(style, glyph, name, text, detail) ==
    [kind |-> "report", style |-> style, glyph |-> glyph, name |-> name,
     text |-> text, detail |-> detail, counts |-> << >>]

\* validate calling stats.valid for an object with violations
validateInvalidCountedValid(o) ==
    IF o.err # "nil"
    THEN IF o.err = ErrSchemaNotFound
         THEN [line |-> Report("dim", unicodeQuestion, o.name,
                               "no schema found, cannot validate", << >>),
               op |-> "unknown", ret |-> "nil"]
         ELSE [line |-> Report("red", unicodeX, o.name,
                               "schema fetch error", <<o.err>>),
               op |-> "errors", ret |-> o.err]
    ELSE IF Len(o.errs) = 0
         THEN [line |-> Report("green", unicodeCheck, o.name, "is valid", << >>),
               op |-> "valid", ret |-> "nil"]
         ELSE [line |-> Report("red", unicodeX, o.name, "is invalid", o.errs),
               op |-> "valid", ret |-> "nil"]

\* validate returning an error for an object with violations
validateInvalidReturnsError(o) ==
    IF o.err # "nil"
    THEN IF o.err = ErrSchemaNotFound
         THEN [line |-> Report("dim", unicodeQuestion, o.name,
                               "no schema found, cannot validate", << >>),
               op |-> "unknown", ret |-> "nil"]
         ELSE [line |-> Report("red", unicodeX, o.name,
                               "schema fetch error", <<o.err>>),
               op |-> "errors", ret |-> o.err]
    ELSE IF Len(o.errs) = 0
         THEN [line |-> Report("green", unicodeCheck, o.name, "is valid", << >>),
               op |-> "valid", ret |-> "nil"]
         ELSE [line |-> Report("red", unicodeX, o.name, "is invalid", o.errs),
               op |-> "invalid", ret |-> "invalid"]

\* validate without the ErrSchemaNotFound case: every lookup error is
\* reported as a fetch error, recorded in Errors and returned
validateNotFoundPropagated(o) ==
    IF o.err # "nil"
    THEN [line |-> Report("red", unicodeX, o.name, "schema fetch error", <<o.err>>),
          op |-> "errors", ret |-> o.err]
    ELSE IF Len(o.errs) = 0
         THEN [line |-> Report("green", unicodeCheck, o.name, "is valid", << >>),
               op |-> "valid", ret |-> "nil"]
         ELSE [line |-> Report("red", unicodeX, o.name, "is invalid", o.errs),
               op |-> "invalid", ret |-> "nil"]

\* validator.validate without its interleaving: for the client's answers o,
\* the report it writes, the record operation it calls and what it returns.
validate(o) ==
    IF o.err # "nil"
    THEN IF o.err = ErrSchemaNotFound
         THEN [line |-> Report("dim", unicodeQuestion, o.name,
                               "no schema found, cannot validate", << >>),
               op |-> "unknown", ret |-> "nil"]
         ELSE [line |-> Report("red", unicodeX, o.name,
                               "schema fetch error", <<o.err>>),
               op |-> "errors", ret |-> o.err]
    ELSE IF Len(o.errs) = 0
         THEN [line |-> Report("green", unicodeCheck, o.name, "is valid", << >>),
               op |-> "valid", ret |-> "nil"]
         ELSE [line |-> Report("red", unicodeX, o.name, "is invalid", o.errs),
               op |-> "invalid", ret |-> "nil"]

\* The Write calls one validate call makes on v.w for its report d: each
\* path has a single Fprintf, which formats the whole report (for an invalid
\* object the header and all violation lines) and writes it in one call.
FprintfPerLine(d) ==
    <<[d.line EXCEPT !.detail = << >>]>> \o
    [k \in 1..Len(d.line.detail) |->
        [d.line EXCEPT !.glyph = "", !.name = "", !.text = "",
                       !.detail = <<d.line.detail[k]>>]]

Fprintf(d) == <<d.line>>

\* The order of the steps of validate after the lookup: the report is
\* written, then the outcome is recorded, then validate returns.
recordBeforeReport(at) ==
    IF at = "call" THEN "record"
    ELSE IF at = "record" THEN "Fprintf"
    ELSE "return"

validateThen(at) ==
    IF at = "call" THEN "Fprintf"
    ELSE IF at = "Fprintf" THEN "record"
    ELSE "return"

\* ---------------------------------------------------------------- validatorStats
\* a record operation that does not take the mutex
LockNoWait(m) == TRUE

\* v.l.Lock() returns only when no one holds the mutex
Lock(m) == m = 0

\* a record operation that returns without releasing the mutex
UnlockMissing(m) == m

\* the deferred v.l.Unlock() leaves the mutex free
Unlock(m) == 0

\* the names b holds after a, when b extends a
Added(a, b) ==
    IF Len(b) >= Len(a) /\ SubSeq(b, 1, Len(a)) = a
    THEN SubSeq(b, Len(a) + 1, Len(b))
    ELSE <<"rewritten">>

\* what one store changed in the statistics
Diff(v, v2) ==
    [ValidCount |-> v2.ValidCount - v.ValidCount,
     Unknown |-> Added(v.Unknown, v2.Unknown),
     Invalid |-> Added(v.Invalid, v2.Invalid),
     Errors |-> Added(v.Errors, v2.Errors)]

\* A record operation loads the field it is about and stores the new value;
\* t is what it loaded, s the name it was called with.
Load(v, op) ==
    IF op = "valid" THEN [n |-> v.ValidCount, s |-> << >>]
    ELSE IF op = "invalid" THEN [n |-> 0, s |-> v.Invalid]
    ELSE IF op = "unknown" THEN [n |-> 0, s |-> v.Unknown]
    ELSE [n |-> 0, s |-> v.Errors]

valid(v, t, s) == [v EXCEPT !.ValidCount = t.n + 1]

\* invalid keeping each display name once
invalidOncePerName(v, t, s) ==
    IF \E k \in 1..Len(t.s) : t.s[k] = s THEN v
    ELSE [v EXCEPT !.Invalid = Append(t.s, s)]

invalid(v, t, s) == [v EXCEPT !.Invalid = Append(t.s, s)]

\* unknown putting the new name in front
unknownPrepended(v, t, s) == [v EXCEPT !.Unknown = <<s>> \o t.s]

unknown(v, t, s) == [v EXCEPT !.Unknown = Append(t.s, s)]

\* errors with the result of append thrown away
errorsAppendDiscarded(v, t, s) == v

errors(v, t, s) == [v EXCEPT !.Errors = Append(t.s, s)]

Store(v, op, t, s) ==
    IF op = "valid" THEN valid(v, t, s)
    ELSE IF op = "invalid" THEN invalid(v, t, s)
    ELSE IF op = "unknown" THEN unknown(v, t, s)
    ELSE errors(v, t, s)

\* ---------------------------------------------------------------- control
\* The statements of validateObjects in the order the function runs them,
\* once the validator is constructed: runInParallel, printStats, the switch.
printStatsFirst(stmt) ==
    IF stmt = "start" THEN "printStats"
    ELSE IF stmt = "printStats" THEN "runInParallel"
    ELSE IF stmt = "runInParallel" THEN "switch"
    ELSE "done"

\* validateObjects going from runInParallel straight to its switch
switchWithoutSummary(stmt) ==
    IF stmt = "start" THEN "runInParallel"
    ELSE IF stmt = "runInParallel" THEN "switch"
    ELSE "done"

After(stmt) ==
    IF stmt = "start" THEN "runInParallel"
    ELSE IF stmt = "runInParallel" THEN "printStats"
    ELSE IF stmt = "printStats" THEN "switch"
    ELSE "done"

\* the concurrency limit validateObjects passes to runInParallel for its
\* arguments parallel and objs
LimitObjectCount(par, os) == Len(os)

Limit(par, os) == par

\* ---------------------------------------------------------------- doValidate
\* model.Baseline, the reserved name of the baseline environment
Baseline == "_"

\* the positional arguments tried: none, one environment, the baseline, two
ArgLists == {<< >>, <<"dev">>, <<Baseline>>, <<"dev", "prod">>, <<Baseline, "dev">>}

\* the argument checks of doValidate without the test for the baseline
usageCheckArgCountOnly(a) ==
    IF Len(a) # 1 THEN newUsageError("exactly one environment required")
    ELSE NilError

\* the argument checks at the head of doValidate: the usage error they
\* return, nil when they pass
usageCheck(a) ==
    IF Len(a) # 1 THEN newUsageError("exactly one environment required")
    ELSE IF a[1] = Baseline
         THEN newUsageError("cannot validate baseline environment, use a real environment")
         ELSE NilError

\* the errors filterFunc, filteredObjects and clientProvider can return
StepError(step) ==
    IF step = "filterFunc" THEN "filter parameters error"
    ELSE IF step = "filteredObjects" THEN "object loading error"
    ELSE "client creation error"

\* doValidate creating the client before it loads the objects
clientBeforeObjects(at) ==
    IF at = "args" THEN "filterFunc"
    ELSE IF at = "filterFunc" THEN "clientProvider"
    ELSE IF at = "clientProvider" THEN "filteredObjects"
    ELSE "validateObjects"

\* the order of the calls of doValidate after the argument checks
doValidateThen(at) ==
    IF at = "args" THEN "filterFunc"
    ELSE IF at = "filterFunc" THEN "filteredObjects"
    ELSE IF at = "filteredObjects" THEN "clientProvider"
    ELSE "validateObjects"

\* The values of parallel tried for the objects os: every limit below the
\* object count and one above it.  With a limit at or above the count no
\* worker beyond the count ever gets an object, so these limits give the
\* same runs and one of them is kept.
Limits(os) == (1..(Len(os) - 1)) \cup {Len(os) + 1}

\* ---------------------------------------------------------------- Init
Init ==
    /\ args \in ArgLists
    /\ dpc = "args"
    /\ trace = << >>
    /\ failed = ""
    /\ objs \in ObjectLists
    /\ parallel \in Limits(objs)
    /\ mpc = "start"
    /\ next = 1
    /\ pc = [w \in Workers |-> "idle"]
    /\ cur = [w \in Workers |-> 0]
    /\ tmp = [w \in Workers |-> [n |-> 0, s |-> << >>]]
    /\ l = 0
    /\ wl = 0
    /\ stats = ZeroStats
    /\ out = << >>
    /\ outBy = << >>
    /\ nw = [w \in Workers |-> 0]
    /\ vErr = "nil"
    /\ result = NilError
    /\ invoked = [i \in 1..Len(objs) |-> 0]
    /\ returned = [i \in 1..Len(objs) |-> << >>]
    /\ called = [i \in 1..Len(objs) |-> << >>]
    /\ contrib = [i \in 1..Len(objs) |-> << >>]

\* len(args) != 1 and env == model.Baseline: return a usage error, else go on
doValidate ==
    /\ dpc = "args"
    /\ IF usageCheck(args) # NilError
       THEN /\ result' = usageCheck(args)
            /\ dpc' = "done"
       ELSE /\ dpc' = doValidateThen("args")
            /\ UNCHANGED result
    /\ UNCHANGED <<args, trace, failed, objs, parallel, mpc, next, pc, cur, tmp,
                   l, wl, stats, out, outBy, nw, vErr, invoked, returned,
                   called, contrib>>

\* a call of a collaborator that either succeeds or returns its error,
\* which doValidate returns at once
Invoke(step) ==
    /\ dpc = step
    /\ trace' = Append(trace, step)
    /\ \E ok \in BOOLEAN :
        IF ok
        THEN /\ dpc' = doValidateThen(step)
             /\ UNCHANGED <<result, failed>>
        ELSE /\ dpc' = "done"
             /\ result' = PropagatedError(StepError(step))
             /\ failed' = step
    /\ UNCHANGED <<args, objs, parallel, mpc, next, pc, cur, tmp, l, wl, stats,
                   out, outBy, nw, vErr, invoked, returned, called, contrib>>

\* fp, err := config.filterFunc()
filterFunc == Invoke("filterFunc")

\* objects, err := filteredObjects(config, env, fp)
filteredObjects == Invoke("filteredObjects")

\* client, err := config.clientProvider(env)
clientProvider == Invoke("clientProvider")

\* return validateObjects(objects, client, config.parallel, ...): the
\* validator is constructed and the function is at its first statement
callValidateObjects ==
    /\ dpc = "validateObjects"
    /\ trace' = Append(trace, "validateObjects")
    /\ dpc' = "running"
    /\ mpc' = After("start")
    /\ UNCHANGED <<args, failed, objs, parallel, next, pc, cur, tmp, l, wl,
                   stats, out, outBy, nw, vErr, result, invoked, returned,
                   called, contrib>>

\* the object worker w is validating, and what validate does with it
Obj(w) == objs[cur[w]]
Do(w) == validate(Obj(w))

\* ---------------------------------------------------------------- workers
\* The executor hands the next object to a free worker, which calls
\* validate: DisplayName, ValidatorFor and schema.Validate only read, so the
\* call is at its Fprintf right away.  Of the free workers the lowest takes
\* the object: the workers are alike, any other choice is the same run with
\* the workers renamed.
Call(w) ==
    /\ mpc = "runInParallel"
    /\ w <= Limit(parallel, objs)
    /\ pc[w] = "idle"
    /\ \A u \in 1..(w - 1) : pc[u] # "idle"
    /\ next <= Len(objs)
    /\ cur' = [cur EXCEPT ![w] = next]
    /\ next' = next + 1
    /\ invoked' = [invoked EXCEPT ![next] = @ + 1]
    /\ pc' = [pc EXCEPT ![w] = validateThen("call")]
    /\ UNCHANGED <<args, dpc, trace, failed, objs, parallel, mpc, tmp, l, wl,
                   stats, out, outBy, nw, vErr, result, returned, called,
                   contrib>>

\* the lockWriter's Write waits until no other Write is in progress
WriterFree(m) == m = 0

\* fmt.Fprintf(v.w, ...) makes one Write call on the lockWriter: lock ...
WriterLock(w) ==
    /\ pc[w] = "Fprintf"
    /\ WriterFree(wl)
    /\ wl' = w
    /\ pc' = [pc EXCEPT ![w] = "Write"]
    /\ UNCHANGED <<args, dpc, trace, failed, objs, parallel, mpc, next, cur,
                   tmp, l, stats, out, outBy, nw, vErr, result, invoked,
                   returned, called, contrib>>

\* ... pass the bytes of this call to the underlying writer and unlock
WriterWrite(w) ==
    /\ pc[w] = "Write"
    /\ out' = Append(out, Fprintf(Do(w))[nw[w] + 1])
    /\ outBy' = Append(outBy, cur[w])
    /\ nw' = [nw EXCEPT ![w] = @ + 1]
    /\ wl' = 0
    /\ pc' = [pc EXCEPT ![w] = IF nw[w] + 1 < Len(Fprintf(Do(w)))
                               THEN "Fprintf"
                               ELSE validateThen("Fprintf")]
    /\ UNCHANGED <<args, dpc, trace, failed, objs, parallel, mpc, next, cur,
                   tmp, l, stats, vErr, result, invoked, returned, called,
                   contrib>>

\* v.stats.<op>(name): v.l.Lock() returns and the operation loads the
\* field it is about (the read half of v.ValidCount++ / append(v.X, s))
StatsLock(w) ==
    /\ pc[w] = "record"
    /\ Lock(l)
    /\ l' = w
    /\ tmp' = [tmp EXCEPT ![w] = Load(stats, Do(w).op)]
    /\ called' = [called EXCEPT ![cur[w]] = Append(@, <<Do(w).op, Obj(w).name>>)]
    /\ pc' = [pc EXCEPT ![w] = "store"]
    /\ UNCHANGED <<args, dpc, trace, failed, objs, parallel, mpc, next, cur,
                   wl, stats, out, outBy, nw, vErr, result, invoked,
                   returned, contrib>>

\* the write half, then the deferred v.l.Unlock()
StatsStore(w) ==
    /\ pc[w] = "store"
    /\ stats' = Store(stats, Do(w).op, tmp[w], Obj(w).name)
    /\ contrib' = [contrib EXCEPT ![cur[w]] = Append(@, Diff(stats, stats'))]
    /\ tmp' = [tmp EXCEPT ![w] = [n |-> 0, s |-> << >>]]
    /\ l' = Unlock(l)
    /\ pc' = [pc EXCEPT ![w] = validateThen("record")]
    /\ UNCHANGED <<args, dpc, trace, failed, objs, parallel, mpc, next, cur,
                   wl, out, outBy, nw, vErr, result, invoked, returned,
                   called>>

\* the error the executor keeps: the first one a task returned
Capture(e, ret) == IF e = "nil" THEN ret ELSE e

\* validate returns; the executor captures a propagated error and the
\* worker is free for the next object
Return(w) ==
    /\ pc[w] = "return"
    /\ vErr' = Capture(vErr, Do(w).ret)
    /\ returned' = [returned EXCEPT ![cur[w]] = Append(@, Do(w).ret)]
    /\ cur' = [cur EXCEPT ![w] = 0]
    /\ nw' = [nw EXCEPT ![w] = 0]
    /\ pc' = [pc EXCEPT ![w] = "idle"]
    /\ UNCHANGED <<args, dpc, trace, failed, objs, parallel, mpc, next, tmp,
                   l, wl, stats, out, outBy, result, invoked, called,
                   contrib>>

\* ---------------------------------------------------------------- validateObjects
\* an executor that hands out no further object once a task has failed
DrainedOrFailed ==
    /\ next > Len(objs) \/ vErr # "nil"
    /\ \A w \in Workers : pc[w] = "idle"

\* runInParallel may return once every object was handed out and every
\* validate call has returned
Drained == next > Len(objs) /\ \A w \in Workers : pc[w] = "idle"

\* vErr := runInParallel(objs, v.validate, parallel) returns
Join ==
    /\ mpc = "runInParallel"
    /\ Drained
    /\ mpc' = After("runInParallel")
    /\ UNCHANGED <<args, dpc, trace, failed, objs, parallel, next, pc, cur,
                   tmp, l, wl, stats, out, outBy, nw, vErr, result, invoked,
                   returned, called, contrib>>

\* the summary printStats writes: the counts of the four buckets
Summary(v) ==
    [kind |-> "stats", style |-> "", glyph |-> "", name |-> "", text |-> "",
     detail |-> << >>,
     counts |-> <<v.ValidCount, Len(v.Unknown), Len(v.Invalid), Len(v.Errors)>>]

\* printStats(v.w, &v.stats): reads the statistics without the mutex
printStats ==
    /\ mpc = "printStats"
    /\ WriterFree(wl)
    /\ out' = Append(out, Summary(stats))
    /\ outBy' = Append(outBy, 0)
    /\ mpc' = After("printStats")
    /\ UNCHANGED <<args, dpc, trace, failed, objs, parallel, next, pc, cur,
                   tmp, l, wl, stats, nw, vErr, result, invoked, returned,
                   called, contrib>>

\* the switch with its first two cases exchanged
VerdictInvalidFirst(e, v) ==
    IF Len(v.Invalid) > 0 THEN InvalidObjectsError(Len(v.Invalid))
    ELSE IF e # "nil" THEN PropagatedError(e)
    ELSE NilError

\* the switch that ends validateObjects
Verdict(e, v) ==
    IF e # "nil" THEN PropagatedError(e)
    ELSE IF Len(v.Invalid) > 0 THEN InvalidObjectsError(Len(v.Invalid))
    ELSE NilError

validateObjects ==
    /\ mpc = "switch"
    /\ result' = Verdict(vErr, stats)
    /\ dpc' = "done"
    /\ mpc' = After("switch")
    /\ UNCHANGED <<args, trace, failed, objs, parallel, next, pc, cur, tmp,
                   l, wl, stats, out, outBy, nw, vErr, invoked, returned,
                   called, contrib>>

Next ==
    \/ doValidate
    \/ filterFunc
    \/ filteredObjects
    \/ clientProvider
    \/ callValidateObjects
    \/ \E w \in Workers : Call(w)
    \/ \E w \in Workers : WriterLock(w)
    \/ \E w \in Workers : WriterWrite(w)
    \/ \E w \in Workers : StatsLock(w)
    \/ \E w \in Workers : StatsStore(w)
    \/ \E w \in Workers : Return(w)
    \/ Join
    \/ printStats
    \/ validateObjects

Spec == Init /\ [][Next]_vars

\* Goroutines that can run are run, and the schema client's and the
\* validator's calls return: a step that stays possible is taken.  No
\* branch and no lock depends on the display name, so one name is kept.
FairInit ==
    /\ Init
    /\ \A i \in 1..Len(objs) : objs[i].name = NameOrder[1]

FairSpec == FairInit /\ [][Next]_vars /\ WF_vars(Next)

\* ---------------------------------------------------------------- type
TypeOK ==
    /\ objs \in ObjectLists
    /\ parallel \in 1..MaxParallel
    /\ args \in ArgLists
    /\ dpc \in {"args", "filterFunc", "filteredObjects", "clientProvider",
               "validateObjects", "running", "done"}
    /\ mpc \in {"start", "runInParallel", "printStats", "switch", "done"}
    /\ next \in 1..(Len(objs) + 1)
    /\ l \in {0} \cup Workers
    /\ wl \in {0} \cup Workers
    /\ stats.ValidCount \in 0..Len(objs)

\* ---------------------------------------------------------------- the input, classified
\* the objects of the run by the answers of the schema client
LookupFailed(o) == o.err # "nil" /\ o.err # ErrSchemaNotFound
SchemaNotFound(o) == o.err = ErrSchemaNotFound
HasViolations(o) == o.err = "nil" /\ Len(o.errs) >= 1
NoViolations(o) == o.err = "nil" /\ Len(o.errs) = 0

Indexes == 1..Len(objs)
FailedIdx == {i \in Indexes : LookupFailed(objs[i])}
UnknownIdx == {i \in Indexes : SchemaNotFound(objs[i])}
InvalidIdx == {i \in Indexes : HasViolations(objs[i])}
ValidIdx == {i \in Indexes : NoViolations(objs[i])}

Total(v) == v.ValidCount + Len(v.Unknown) + Len(v.Invalid) + Len(v.Errors)

\* ---------------------------------------------------------------- claims
\* C1: after validateObjects returns, ValidCount + len(Unknown) +
\* len(Invalid) + len(Errors) equals the number of input objects, for every
\* object list, every concurrency limit and every interleaving.
C1_StatsAccountForEveryObject ==
    mpc = "done" => Total(stats) = Len(objs)

C1_Witness ==
    /\ mpc = "done"
    /\ parallel >= 2
    /\ Len(objs) = 2
    /\ stats.ValidCount = 1
    /\ Len(stats.Errors) = 1

\* C2: when ValidatorFor failed with an error other than ErrSchemaNotFound
\* for at least one object, validateObjects returns one of those lookup
\* errors, whatever the other objects were; never the invalid-objects error.
C2_LookupErrorAborts ==
    (mpc = "done" /\ FailedIdx # {}) =>
        /\ result \in {PropagatedError(objs[i].err) : i \in FailedIdx}
        /\ result # InvalidObjectsError(Len(stats.Invalid))

C2_Witness ==
    /\ mpc = "done"
    /\ FailedIdx # {}
    /\ Len(stats.Invalid) = 1
    /\ result = PropagatedError("fetch1")

\* C3: with no invalid object and no lookup error validateObjects returns
\* nil, for any number of valid and of schema-less objects, the empty list
\* included.
C3_SuccessWithoutInvalidOrErrors ==
    (mpc = "done" /\ InvalidIdx = {} /\ FailedIdx = {}) => result = NilError

C3_Witness ==
    /\ mpc = "done"
    /\ InvalidIdx = {} /\ FailedIdx = {}
    /\ stats.ValidCount = 1
    /\ Len(stats.Unknown) = 1
    /\ result = NilError

\* C4: with at least one invalid object and no lookup error validateObjects
\* returns the invalid-objects error whose count is len(Invalid), the
\* number of input objects with one or more violations: equal display names
\* are counted separately, schema-less objects not at all.
C4_PartialFailureCountsInvalid ==
    (mpc = "done" /\ InvalidIdx # {} /\ FailedIdx = {}) =>
        /\ result = InvalidObjectsError(Len(stats.Invalid))
        /\ Len(stats.Invalid) = Cardinality(InvalidIdx)

C4_Witness ==
    /\ mpc = "done"
    /\ FailedIdx = {}
    /\ Len(objs) = 2
    /\ objs[1].name = objs[2].name
    /\ result = InvalidObjectsError(2)

\* C5: each validate call contributes exactly once, to the one bucket of its
\* outcome: no violations adds one to ValidCount, violations append the name
\* to Invalid, ErrSchemaNotFound to Unknown, another lookup failure to
\* Errors; no call contributes to two buckets or to none.
NoContribution ==
    [ValidCount |-> 0, Unknown |-> << >>, Invalid |-> << >>, Errors |-> << >>]

ExpectedContribution(o) ==
    IF NoViolations(o) THEN [NoContribution EXCEPT !.ValidCount = 1]
    ELSE IF HasViolations(o) THEN [NoContribution EXCEPT !.Invalid = <<o.name>>]
    ELSE IF SchemaNotFound(o) THEN [NoContribution EXCEPT !.Unknown = <<o.name>>]
    ELSE [NoContribution EXCEPT !.Errors = <<o.name>>]

C5_OneContributionToTheOutcomeBucket ==
    \A i \in Indexes :
        /\ Len(contrib[i]) <= 1
        /\ returned[i] # << >> => contrib[i] = <<ExpectedContribution(objs[i])>>

C5_Witness ==
    \E i \in Indexes :
        /\ returned[i] # << >>
        /\ HasViolations(objs[i])
        /\ contrib[i] = <<[NoContribution EXCEPT !.Invalid = <<objs[i].name>>]>>
        /\ \E w \in Workers : pc[w] = "store"

\* C6: validate returns a non-nil error exactly when ValidatorFor failed
\* with an error other than ErrSchemaNotFound; a schema-less object and an
\* object with violations return nil.
C6_OnlyLookupErrorsAreReturned ==
    \A i \in Indexes : \A k \in 1..Len(returned[i]) :
        (returned[i][k] # "nil") <=> LookupFailed(objs[i])

C6_Witness ==
    \E i, j \in Indexes :
        /\ SchemaNotFound(objs[i]) /\ returned[i] = <<"nil">>
        /\ LookupFailed(objs[j]) /\ returned[j] = <<objs[j].err>>

\* C7: no record operation is lost or counted twice under any interleaving:
\* when k operations have completed, ValidCount plus the three lengths is k,
\* and every name is in a bucket as often as it was recorded there.
CompletedOps == UNION {{<<i, k>> : k \in 1..Len(contrib[i])} : i \in Indexes}
CompletedAs(op) == {c \in CompletedOps : called[c[1]][c[2]][1] = op}
CompletedWith(op, s) == {c \in CompletedAs(op) : called[c[1]][c[2]][2] = s}
Occurrences(q, s) == Cardinality({k \in 1..Len(q) : q[k] = s})

C7_NoRecordLostOrDoubled ==
    /\ Total(stats) = Cardinality(CompletedOps)
    /\ stats.ValidCount = Cardinality(CompletedAs("valid"))
    /\ \A s \in Names :
        /\ Occurrences(stats.Unknown, s) = Cardinality(CompletedWith("unknown", s))
        /\ Occurrences(stats.Invalid, s) = Cardinality(CompletedWith("invalid", s))
        /\ Occurrences(stats.Errors, s) = Cardinality(CompletedWith("errors", s))

C7_Witness ==
    /\ Cardinality(CompletedOps) = 2
    /\ Len(stats.Unknown) = 2
    /\ stats.Unknown[1] = stats.Unknown[2]
    /\ parallel >= 2
    /\ mpc = "runInParallel"

\* C8: for the same objects and the same answers of the schema client, the
\* run with concurrency limit 1 and a run with a limit above the object
\* count end with the same ValidCount, the same names in Unknown, Invalid
\* and Errors up to their order, and the same class of verdict.
RECURSIVE RunSequential(_, _, _)
RunSequential(os, v, e) ==
    IF os = << >> THEN [stats |-> v, vErr |-> e]
    ELSE LET o == Head(os)
             d == validate(o)
         IN RunSequential(Tail(os), Store(v, d.op, Load(v, d.op), o.name),
                          Capture(e, d.ret))

Class(r) ==
    IF r = NilError THEN "Success"
    ELSE IF r.msg = "%d invalid objects found" THEN "PartialFailure"
    ELSE "Aborted"

SameNames(q, r) ==
    Len(q) = Len(r) /\ \A s \in Names : Occurrences(q, s) = Occurrences(r, s)

C8_SameStatisticsForAnyLimit ==
    mpc = "done" =>
        LET ref == RunSequential(objs, ZeroStats, "nil")
        IN /\ parallel = 1 =>
                /\ stats = ref.stats
                /\ result = Verdict(ref.vErr, ref.stats)
           /\ parallel > Len(objs) =>
                /\ stats.ValidCount = ref.stats.ValidCount
                /\ SameNames(stats.Unknown, ref.stats.Unknown)
                /\ SameNames(stats.Invalid, ref.stats.Invalid)
                /\ SameNames(stats.Errors, ref.stats.Errors)
                /\ Class(result) = Class(Verdict(ref.vErr, ref.stats))

C8_Witness ==
    /\ mpc = "done"
    /\ parallel > Len(objs)
    /\ stats.Invalid = <<"b", "a">>
    /\ RunSequential(objs, ZeroStats, "nil").stats.Invalid = <<"a", "b">>

\* C9: every object is passed to validate exactly once and the executor
\* returns only after every call has returned, a call that propagated a
\* lookup error included: no other object is skipped, and every object is
\* reported and recorded.
Reports == {k \in 1..Len(out) : out[k].kind = "report"}

C9_EveryObjectValidatedOnce ==
    /\ \A i \in Indexes : invoked[i] <= 1 /\ Len(returned[i]) <= invoked[i]
    /\ mpc \in {"printStats", "switch", "done"} =>
        /\ \A i \in Indexes :
            /\ invoked[i] = 1
            /\ Len(returned[i]) = 1
            /\ Len(contrib[i]) = 1
            /\ \E k \in Reports : out[k] = validate(objs[i]).line
        /\ Cardinality(Reports) = Len(objs)

C9_Witness ==
    /\ mpc = "printStats"
    /\ parallel = 1
    /\ Len(objs) = 2
    /\ LookupFailed(objs[1])
    /\ vErr = objs[1].err
    /\ returned[2] = <<"nil">>
    /\ stats.ValidCount = 1

\* C10: the run never skips draining: printStats and the switch read the
\* statistics only when every object was handed out and every validate call
\* has returned, so no record operation is in flight during those reads.
C10_StatisticsReadAfterDraining ==
    mpc \in {"printStats", "switch", "done"} =>
        /\ Drained
        /\ Lock(l)
        /\ \A i \in Indexes : Len(returned[i]) = invoked[i]

C10_Witness ==
    /\ mpc = "switch"
    /\ parallel >= 2
    /\ Len(objs) = 2
    /\ Len(stats.Errors) = 2
    /\ out[Len(out)].counts = <<0, 0, 0, 2>>

\* C11: every run writes one report per object and then exactly one
\* summary: nothing but reports before printStats, and from the switch on
\* (also when the verdict is a lookup error or the invalid-objects error)
\* the output is the reports of all objects followed by the summary.
Summaries == {k \in 1..Len(out) : out[k].kind = "stats"}
SameReport(i) == {j \in Indexes : validate(objs[j]).line = validate(objs[i]).line}

C11_ReportsThenOneSummary ==
    /\ mpc \in {"runInParallel", "printStats"} => Summaries = {}
    /\ mpc \in {"switch", "done"} =>
        /\ Len(out) = Len(objs) + 1
        /\ Summaries = {Len(out)}
        /\ out[Len(out)] = Summary(stats)
        /\ \A i \in Indexes :
            Occurrences(out, validate(objs[i]).line) = Cardinality(SameReport(i))

C11_Witness ==
    /\ mpc = "done"
    /\ result \in {PropagatedError(e) : e \in LookupErrors}
    /\ Len(stats.Invalid) = 1
    /\ Len(out) = 3
    /\ out[3].kind = "stats"

\* C13: at every moment of a run the number of validate calls in flight
\* (started and not yet returned) is at most the parallel argument of
\* validateObjects.
InFlight == {w \in Workers : pc[w] # "idle"}

C13_InFlightWithinLimit == Cardinality(InFlight) <= parallel

C13_Witness ==
    /\ parallel = 1
    /\ Cardinality(InFlight) = 1
    /\ next <= Len(objs)

\* C14: the statistics only grow: in every step ValidCount does not
\* decrease and Unknown, Invalid and Errors are extended at their end only,
\* and a record operation leaves the three buckets it is not about as they
\* were.
IsPrefix(q, r) == Len(q) <= Len(r) /\ SubSeq(r, 1, Len(q)) = q

Storing(w) == pc[w] = "store" /\ pc'[w] # "store"

StatsGrow ==
    /\ stats'.ValidCount >= stats.ValidCount
    /\ IsPrefix(stats.Unknown, stats'.Unknown)
    /\ IsPrefix(stats.Invalid, stats'.Invalid)
    /\ IsPrefix(stats.Errors, stats'.Errors)

OtherBucketsKept ==
    /\ stats' # stats => \E w \in Workers : Storing(w)
    /\ \A w \in Workers : Storing(w) =>
        /\ Do(w).op # "valid" => stats'.ValidCount = stats.ValidCount
        /\ Do(w).op # "unknown" => stats'.Unknown = stats.Unknown
        /\ Do(w).op # "invalid" => stats'.Invalid = stats.Invalid
        /\ Do(w).op # "errors" => stats'.Errors = stats.Errors

C14_StatisticsOnlyGrow == [][StatsGrow /\ OtherBucketsKept]_vars

C14_Witness ==
    /\ stats.Unknown = <<"a", "b">>
    /\ parallel >= 2
    /\ \E w \in Workers : pc[w] = "return"

\* C12: reports of concurrent workers never interleave inside a report:
\* each validate call hands its whole report, for an invalid object the
\* header and all violation lines, to the locked writer as one write, so
\* what the output holds of one object is one unbroken piece, not split by
\* another object's report or by the summary.
WrittenBy(i) == {k \in 1..Len(outBy) : outBy[k] = i}

C12_ReportWrittenAsOnePiece ==
    /\ Len(outBy) = Len(out)
    /\ \A i \in Indexes :
        /\ Cardinality(WrittenBy(i)) <= 1
        /\ \A k \in WrittenBy(i) :
            /\ out[k] = validate(objs[i]).line
            /\ HasViolations(objs[i]) => out[k].detail = objs[i].errs
        /\ \A j, k \in WrittenBy(i) : \A h \in j..k : outBy[h] = i

C12_Witness ==
    /\ parallel >= 2
    /\ outBy = <<2, 1>>
    /\ out[1].detail = <<"v1", "v2">>
    /\ out[2].detail = <<"v1">>
    /\ \A w \in Workers : pc[w] \in {"idle", "record"}

\* C16: in every validate call the report is written before the outcome is
\* recorded: at all times the recorded contributions are at most as many as
\* the reports written, a recorded call has its report in the output, and
\* the two numbers are equal once all workers have returned.
C16_ReportedBeforeRecorded ==
    /\ Total(stats) <= Cardinality(Reports)
    /\ \A i \in Indexes : contrib[i] # << >> => WrittenBy(i) # {}
    /\ Drained => Total(stats) = Cardinality(Reports)

C16_Witness ==
    /\ Cardinality(Reports) = 2
    /\ Total(stats) = 1
    /\ \E w \in Workers : pc[w] = "store"

\* C15: when every call of the schema client and of the validator returns,
\* the run ends with a verdict: a worker waits only for the statistics
\* mutex or the writer's lock, whose holder is inside its short critical
\* section and waits for nothing; no worker holds both locks at once; and
\* under fair scheduling every run reaches the return of validateObjects.
NoWorkerHoldsBothLocks == \A w \in Workers : ~(l = w /\ wl = w)

HoldersDoNotWait ==
    /\ ~Lock(l) => pc[l] = "store"
    /\ ~WriterFree(wl) => pc[wl] = "Write"

Reduced ==
    /\ mpc = "done"
    /\ Class(result) \in {"Success", "PartialFailure", "Aborted"}

C15_RunTerminatesWithVerdict ==
    /\ [](NoWorkerHoldsBothLocks /\ HoldersDoNotWait)
    /\ (mpc # "start") ~> Reduced

C15_Witness ==
    /\ ~Lock(l)
    /\ ~WriterFree(wl)
    /\ l # wl
    /\ pc[l] = "store"
    /\ pc[wl] = "Write"

\* C17: doValidate returns a usage error when the positional arguments are
\* not exactly one or when the one argument is the baseline environment;
\* in both cases filterFunc, the object loading, clientProvider and
\* validateObjects are not invoked and nothing is written.
BadArgs == Len(args) # 1 \/ args[1] = Baseline
IsUsageError(r) == "usage" \in DOMAIN r
NothingValidated ==
    /\ mpc = "start"
    /\ out = << >>
    /\ stats = ZeroStats
    /\ \A i \in Indexes : invoked[i] = 0

C17_UsageErrorInvokesNothing ==
    BadArgs =>
        /\ trace = << >>
        /\ NothingValidated
        /\ dpc \in {"args", "done"}
        /\ dpc = "done" => IsUsageError(result)

C17_Witness ==
    /\ dpc = "done"
    /\ args = <<Baseline>>
    /\ result = newUsageError("cannot validate baseline environment, use a real environment")
    /\ Len(objs) = 2

\* C18: doValidate runs filter parameters, object loading, client creation
\* and validation in this order and stops at the first that fails,
\* returning its error: no later step is invoked, so no client is created
\* when loading fails, and nothing is validated or printed when the client
\* creation fails.
CallOrder == <<"filterFunc", "filteredObjects", "clientProvider", "validateObjects">>

C18_StepsInOrderStopAtFirstError ==
    /\ IsPrefix(trace, CallOrder)
    /\ failed # "" =>
        /\ dpc = "done"
        /\ result = PropagatedError(StepError(failed))
        /\ trace # << >> /\ trace[Len(trace)] = failed
        /\ NothingValidated

C18_Witness ==
    /\ failed = "clientProvider"
    /\ trace = <<"filterFunc", "filteredObjects", "clientProvider">>
    /\ result = PropagatedError("client creation error")
    /\ Len(objs) = 2

====
